---- MODULE Spec2Model ----
(***************************************************************************)
(* Model of src/main/python/cos_op.py: the presigned-URL builder           *)
(* (get_hash, create_signature_key, generate_link) and the spreadsheet     *)
(* report builders (generate_excel, generate_excel_effectiveness).         *)
(*                                                                         *)
(* A Python str is a sequence of tokens.  A token is either one reserved   *)
(* character ("&", "=", "/", "?", ":", " ") or a run of characters that    *)
(* urllib's quote never escapes (letters, digits, "_", ".", "-", "~").     *)
(* A bytes value (an encoded str, a digest) is one TLA+ string; a digest   *)
(* is the free term "hmac(key,msg)" / "sha256(msg)" of its inputs.         *)
(***************************************************************************)
EXTENDS Integers, Sequences, FiniteSets, TLC

\* ------------------------------------------------------------------ bounds
\* how many seconds the clock may advance during one behaviour
MaxTicks == 2
\* longest dataframe (number of data rows)
MaxRows == 5
\* longest dataframe_list / sheet_name_list
MaxList == 2

\* ------------------------------------------------------- python primitives
Digits == <<"0", "1", "2", "3", "4", "5", "6", "7", "8", "9">>

RECURSIVE Decimal(_)
Decimal(n) ==
    IF n < 10 THEN <<Digits[n + 1]>>
    ELSE Decimal(n \div 10) \o <<Digits[(n % 10) + 1]>>

\* str(expiration) for an int
str(n) == IF n < 0 THEN <<"-">> \o Decimal(0 - n) ELSE Decimal(n)

\* "%0wd"
RECURSIVE Pad(_, _)
Pad(n, w) ==
    IF w = 0 THEN <<>> ELSE Pad(n \div 10, w - 1) \o <<Digits[(n % 10) + 1]>>

\* s.encode('utf-8'): the tokens run together into one byte string
RECURSIVE encode(_)
encode(s) == IF s = <<>> THEN "" ELSE Head(s) \o encode(Tail(s))

\* datetime.datetime.utcfromtimestamp(t): civil date of epoch second t
utcfromtimestamp(t) ==
    LET days == t \div 86400
        sod  == t % 86400
        z    == days + 719468
        era  == z \div 146097
        doe  == z - era * 146097
        yoe  == (doe - doe \div 1460 + doe \div 36524 - doe \div 146096) \div 365
        doy  == doe - (365 * yoe + yoe \div 4 - yoe \div 100)
        mp   == (5 * doy + 2) \div 153
        m    == IF mp < 10 THEN mp + 3 ELSE mp - 9
    IN  [year   |-> yoe + era * 400 + (IF m <= 2 THEN 1 ELSE 0),
         month  |-> m,
         day    |-> doy - (153 * mp + 2) \div 5 + 1,
         hour   |-> sod \div 3600,
         minute |-> (sod % 3600) \div 60,
         second |-> sod % 60]

\* cur_time.strftime('%Y%m%d')
strftime_date(t) == Pad(t.year, 4) \o Pad(t.month, 2) \o Pad(t.day, 2)

\* cur_time.strftime('%Y%m%dT%H%M%SZ')
strftime_timestamp(t) ==
    strftime_date(t) \o <<"T">> \o Pad(t.hour, 2) \o Pad(t.minute, 2)
                     \o Pad(t.second, 2) \o <<"Z">>

\* the reserved characters of the model's alphabet and their escapes
PercentEncoded ==
    [c \in {"&", "=", "/", "?", ":", " "} |->
        CASE c = "&" -> "%26" [] c = "=" -> "%3D" [] c = "/" -> "%2F"
          [] c = "?" -> "%3F" [] c = ":" -> "%3A" [] c = " " -> "%20"]

\* requests.utils.quote(s, safe): escapes every reserved character not in safe
quote(s, safe) ==
    [i \in 1..Len(s) |->
        IF s[i] \in DOMAIN PercentEncoded /\ s[i] \notin safe
        THEN PercentEncoded[s[i]] ELSE s[i]]

\* hashlib.sha256(b).hexdigest()
sha256_hexdigest(b) == "sha256hex(" \o b \o ")"

\* hmac.new(key, b, hashlib.sha256).digest()
hmac_digest(key, b) == "hmac(" \o key \o "," \o b \o ")"

\* hmac.new(key, b, hashlib.sha256).hexdigest()
hmac_hexdigest(key, b) == "hex(" \o hmac_digest(key, b) \o ")"

\* d[k] of a dict d raises KeyError when k is not a key
HasKeys(d, ks) == ks \subseteq DOMAIN d

\* ------------------------------------------------------------ signing
get_hash(key, msg) == hmac_digest(key, encode(msg))

\* a derivation that scopes the key by service before region
create_signature_key_swapped(key, datestamp_, region_, service) ==
    LET key_date    == get_hash(encode(<<"AWS4">> \o key), datestamp_)
        key_service == get_hash(key_date, service)
        key_region  == get_hash(key_service, region_)
    IN  get_hash(key_region, <<"aws4_request">>)

create_signature_key(key, datestamp_, region_, service) ==
    LET key_date    == get_hash(encode(<<"AWS4">> \o key), datestamp_)
        key_region  == get_hash(key_date, region_)
        key_service == get_hash(key_region, service)
        key_signing == get_hash(key_service, <<"aws4_request">>)
    IN  key_signing

\* ------------------------------------------------------------ state
VARIABLES
    clock,        \* the UTC clock, in epoch seconds
    ticks,        \* how far the clock has advanced
    clock_reads,  \* how many times the running call has read the clock
    op,           \* the function being called, "none" before the call
    pc,           \* the call's position: "idle", a source line, "done"
    args,         \* the call's arguments
    cur_time,     \* generate_link: local cur_time
    timestamp,    \* generate_link: local timestamp
    datestamp,    \* generate_link: local datestamp
    link,         \* generate_link: the locals of lines 52-96
    output,       \* generate_excel*: the BytesIO buffer [open, closed, value]
    book,         \* generate_excel*: workbook.worksheets, in workbook order
    idx,          \* generate_excel*: position of the zip loop
    put_calls,    \* the calls cos_client.put_object has received
    result        \* how the call ended: [kind, exc, value]

vars == <<clock, ticks, clock_reads, op, pc, args, cur_time, timestamp,
          datestamp, link, output, book, idx, put_calls, result>>

link_vars == <<clock_reads, cur_time, timestamp, datestamp, link>>
excel_vars == <<output, book, idx, put_calls>>

NoResult == [kind |-> "none", exc |-> "", value |-> <<>>]
Raised(e) == [kind |-> "raise", exc |-> e, value |-> <<>>]
Returned(v) == [kind |-> "return", exc |-> "", value |-> v]

NoBuffer == [open |-> FALSE, closed |-> FALSE, value |-> <<>>]
NoTime == utcfromtimestamp(0)
NoLink == [standardized_querystring_url_encoded |-> <<>>,
           standardized_request |-> <<>>,
           credential_scope |-> <<>>,
           sts |-> <<>>,
           signature_key |-> "",
           signature |-> ""]

\* ------------------------------------------------------------ inputs
ClockStarts == {1577836798, 1582934398}

CredentialKeys == {"access_key_id", "secret_access_key", "host", "BUCKET"}

CredentialValues ==
    [k \in CredentialKeys |->
        CASE k = "access_key_id" ->
                {<<>>, <<"AKID">>, <<"AKID", "&", "X-Amz-Expires", "=", "1">>}
          [] k = "secret_access_key" -> {<<>>, <<"s3cr3t">>}
          [] k = "host" -> {<<>>, <<"cos.example.net">>}
          [] k = "BUCKET" -> {<<>>, <<"bkt">>}]

\* every dict over a subset of the four keys
CredentialsSet ==
    UNION {{c \in [D -> UNION {CredentialValues[k] : k \in CredentialKeys}] :
                \A k \in D : c[k] \in CredentialValues[k]} :
           D \in SUBSET CredentialKeys}

Filenames == {<<"report.xlsx">>, <<"a", "&", "b", "=", "c">>}

Expirations == {-1, 0, 3600}

\* a direct call of create_signature_key (lines 20-33)
create_signature_key_call ==
    /\ pc = "idle"
    /\ \E key \in CredentialValues["secret_access_key"],
          t \in ClockStarts,
          region_ \in {<<>>, <<"us-south">>},
          service \in {<<"s3">>, <<"iam">>} :
        /\ args' = [key |-> key,
                    datestamp |-> strftime_date(utcfromtimestamp(t)),
                    region |-> region_, service |-> service]
        /\ result' = Returned(create_signature_key(key,
                          strftime_date(utcfromtimestamp(t)), region_, service))
    /\ op' = "create_signature_key"
    /\ pc' = "done"
    /\ UNCHANGED <<clock, ticks, link_vars, excel_vars>>

\* ------------------------------------------------------------ generate_link
region == <<>>
http_method == <<"GET">>

standardized_querystring(credentials, datestamp_, timestamp_, expiration) ==
    <<"X-Amz-Algorithm", "=", "AWS4-HMAC-SHA256">>
    \o <<"&", "X-Amz-Credential", "=">> \o credentials["access_key_id"]
    \o <<"/">> \o datestamp_ \o <<"/">> \o region
    \o <<"/", "s3", "/", "aws4_request">>
    \o <<"&", "X-Amz-Date", "=">> \o timestamp_
    \o <<"&", "X-Amz-Expires", "=">> \o str(expiration)
    \o <<"&", "X-Amz-SignedHeaders", "=", "host">>

\* lines 52-87: everything computed from the captured time
link_locals(filename, credentials, expiration, timestamp_, datestamp_) ==
    LET qs  == quote(standardized_querystring(credentials, datestamp_,
                                              timestamp_, expiration),
                     {"&", "="})
        standardized_resource == <<"/">> \o credentials["BUCKET"] \o <<"/">> \o filename
        payload_hash == <<"UNSIGNED-PAYLOAD">>
        standardized_headers == <<"host", ":">> \o credentials["host"]
        signed_headers == <<"host">>
        req == http_method \o <<"\n">> \o standardized_resource \o <<"\n">>
               \o qs \o <<"\n">> \o standardized_headers \o <<"\n">>
               \o <<"\n">> \o signed_headers \o <<"\n">> \o payload_hash
        hashing_algorithm == <<"AWS4-HMAC-SHA256">>
        scope == datestamp_ \o <<"/">> \o region \o <<"/">> \o <<"s3">>
                 \o <<"/">> \o <<"aws4_request">>
        sts_ == hashing_algorithm \o <<"\n">> \o timestamp_ \o <<"\n">>
                \o scope \o <<"\n">> \o <<sha256_hexdigest(encode(req))>>
        skey == create_signature_key(credentials["secret_access_key"],
                                     datestamp_, region, <<"s3">>)
    IN  [standardized_querystring_url_encoded |-> qs,
         standardized_request |-> req,
         credential_scope |-> scope,
         sts |-> sts_,
         signature_key |-> skey,
         signature |-> hmac_hexdigest(skey, encode(sts_))]

\* lines 90-96
request_url(filename, credentials, l) ==
    <<"https", ":", "/", "/">> \o credentials["host"] \o <<"/">>
    \o credentials["BUCKET"] \o <<"/">> \o filename \o <<"?">>
    \o l.standardized_querystring_url_encoded
    \o <<"&", "X-Amz-Signature", "=">> \o <<l.signature>>

\* the call, up to line 46: endpoint = 'https://' + credentials['host']
generate_link_call ==
    /\ pc = "idle"
    /\ \E filename \in Filenames, credentials \in CredentialsSet,
          expiration \in Expirations :
        /\ op' = "generate_link"
        /\ args' = [filename |-> filename, credentials |-> credentials,
                    expiration |-> expiration]
        /\ IF HasKeys(credentials, {"host"})
           THEN pc' = "48" /\ result' = result
           ELSE pc' = "done" /\ result' = Raised("KeyError")
    /\ UNCHANGED <<clock, ticks, link_vars, excel_vars>>

\* line 48: cur_time = datetime.datetime.utcnow()
generate_link_utcnow ==
    /\ op = "generate_link" /\ pc = "48"
    /\ cur_time' = utcfromtimestamp(clock)
    /\ clock_reads' = clock_reads + 1
    /\ pc' = "49"
    /\ UNCHANGED <<clock, ticks, op, args, timestamp, datestamp, link, result,
                   excel_vars>>

\* line 49: timestamp = cur_time.strftime('%Y%m%dT%H%M%SZ')
generate_link_timestamp ==
    /\ op = "generate_link" /\ pc = "49"
    /\ timestamp' = strftime_timestamp(cur_time)
    /\ pc' = "50"
    /\ UNCHANGED <<clock, ticks, clock_reads, op, args, cur_time, datestamp,
                   link, result, excel_vars>>

\* a datestamp taken from a second reading of the clock
generate_link_datestamp_rereads ==
    /\ op = "generate_link" /\ pc = "50"
    /\ datestamp' = strftime_date(utcfromtimestamp(clock))
    /\ clock_reads' = clock_reads + 1
    /\ pc' = "52"
    /\ UNCHANGED <<clock, ticks, op, args, cur_time, timestamp, link, result,
                   excel_vars>>

\* line 50: datestamp = cur_time.strftime('%Y%m%d')
generate_link_datestamp ==
    /\ op = "generate_link" /\ pc = "50"
    /\ datestamp' = strftime_date(cur_time)
    /\ pc' = "52"
    /\ UNCHANGED <<clock, ticks, clock_reads, op, args, cur_time, timestamp,
                   link, result, excel_vars>>

\* lines 52-96: build, sign, return; a missing dict key raises KeyError
generate_link_sign ==
    /\ op = "generate_link" /\ pc = "52"
    /\ pc' = "done"
    /\ IF HasKeys(args.credentials, {"access_key_id", "BUCKET", "secret_access_key"})
       THEN LET l == link_locals(args.filename, args.credentials,
                                 args.expiration, timestamp, datestamp)
            IN  /\ link' = l
                /\ result' = Returned(request_url(args.filename,
                                                  args.credentials, l))
       ELSE link' = link /\ result' = Raised("KeyError")
    /\ UNCHANGED <<clock, ticks, clock_reads, op, args, cur_time, timestamp,
                   datestamp, excel_vars>>

\* ------------------------------------------------------------ spreadsheet
\* inputs of generate_excel / generate_excel_effectiveness; a dataframe is
\* its number of data rows, and is told from the others by its position
RECURSIVE SeqsUpTo(_, _)
SeqsUpTo(S, n) ==
    IF n = 0 THEN {<<>>}
    ELSE LET shorter == SeqsUpTo(S, n - 1)
         IN  shorter \cup {Append(q, x) : q \in shorter, x \in S}

Dataframes == 0..MaxRows
SheetNames == {"Measure", "Coverage", "a/b"}
CosClients == {"None", "client"}
PutOutcomes == {"ok", "StorageError", "ConnectionError"}

\* xlsxwriter's column names, in order: A..Z, AA..AI
ColumnNames ==
    <<"A", "B", "C", "D", "E", "F", "G", "H", "I", "J", "K", "L", "M",
      "N", "O", "P", "Q", "R", "S", "T", "U", "V", "W", "X", "Y", "Z",
      "AA", "AB", "AC", "AD", "AE", "AF", "AG", "AH", "AI">>

ColumnIndex(name) == CHOOSE i \in 1..Len(ColumnNames) : ColumnNames[i] = name

data_format1 == "#BBCCE2"
data_format2 == "#DEE6EF"
format_header == "text_wrap"

\* xlsxwriter add_worksheet rejects a name holding one of [ ] : * ? / \
InvalidWorksheetName(name) == name = "a/b"

\* worksheet.set_row(row, height, cell_format); height None is the default 15
set_row(ws, row, height, cell_format) ==
    [ws EXCEPT !.rowinfo =
        (row :> [height |-> height, cell_format |-> cell_format]) @@ @]

\* worksheet.set_column('first:last', width)
set_column(ws, first, last, width) ==
    [ws EXCEPT !.colinfo =
        [c \in {ColumnNames[i] : i \in ColumnIndex(first)..ColumnIndex(last)}
            |-> width] @@ @]

\* a loop body that hands out the two formats the other way round
generate_excel_row_swapped(ws, row) ==
    LET w1 == set_row(ws, row, 15, data_format2)
        w2 == set_row(w1, row + 1, 15, data_format1)
        w3 == set_column(w2, "A", "A", 5)
        w4 == set_column(w3, "B", "B", 30)
        w5 == set_column(w4, "C", "C", 30)
        w6 == set_column(w5, "D", "D", 15)
        w7 == set_column(w6, "F", "G", 35)
    IN  set_column(w7, "H", "AH", 20)

\* lines 124-131: the body of generate_excel's row loop
generate_excel_row(ws, row) ==
    LET w1 == set_row(ws, row, 15, data_format1)
        w2 == set_row(w1, row + 1, 15, data_format2)
        w3 == set_column(w2, "A", "A", 5)
        w4 == set_column(w3, "B", "B", 30)
        w5 == set_column(w4, "C", "C", 30)
        w6 == set_column(w5, "D", "D", 15)
        w7 == set_column(w6, "F", "G", 35)
    IN  set_column(w7, "H", "AH", 20)

\* line 123: for row in range(1, len(df) + 1, 2)
RECURSIVE generate_excel_rows(_, _, _)
generate_excel_rows(ws, row, n) ==
    IF row >= n + 1 THEN ws
    ELSE generate_excel_rows(generate_excel_row(ws, row), row + 2, n)

\* lines 163-166: the body of generate_excel_effectiveness's row loop
generate_excel_effectiveness_row(ws, row) ==
    LET w1 == set_row(ws, row, 15, data_format1)
        w2 == set_row(w1, row + 1, 15, data_format2)
        w3 == set_column(w2, "A", "A", 5)
    IN  set_column(w3, "B", "D", 30)

\* line 162: for row in range(1, len(df) + 1, 2)
RECURSIVE generate_excel_effectiveness_rows(_, _, _)
generate_excel_effectiveness_rows(ws, row, n) ==
    IF row >= n + 1 THEN ws
    ELSE generate_excel_effectiveness_rows(
             generate_excel_effectiveness_row(ws, row), row + 2, n)

\* lines 122-131 and 161-166: the styling of one worksheet
style_worksheet(fn, ws, n) ==
    IF fn = "generate_excel"
    THEN generate_excel_rows(set_row(ws, 0, 30, format_header), 1, n)
    ELSE generate_excel_effectiveness_rows(
             set_row(ws, 0, 20, format_header), 1, n)

\* writer.sheets: the worksheet of each name the writer has written to
SheetIndex(wb, name) == {k \in 1..Len(wb) : wb[k].name = name}

\* a writer that adds a worksheet on every call
to_excel_adds(wb, i, n, name) ==
    Append(wb, [name |-> name, cells |-> [r \in 0..n |-> i],
                rowinfo |-> <<>>, colinfo |-> <<>>])

\* df.to_excel(writer, sheet_name=name): the writer reuses the worksheet of
\* a name it has written to before, and adds a worksheet otherwise; the
\* header row and the len(df) data rows are written from row 0 on
to_excel(wb, i, n, name) ==
    LET written == [r \in 0..n |-> i]
    IN  IF SheetIndex(wb, name) # {}
        THEN LET k == CHOOSE k \in SheetIndex(wb, name) : TRUE
             IN  [wb EXCEPT ![k].cells = written @@ @]
        ELSE Append(wb, [name |-> name, cells |-> written,
                         rowinfo |-> <<>>, colinfo |-> <<>>])

\* zip(dataframe_list, sheet_name_list) stops at the shorter list
zip_len(dataframe_list, sheet_name_list) ==
    IF Len(dataframe_list) <= Len(sheet_name_list)
    THEN Len(dataframe_list) ELSE Len(sheet_name_list)

\* a buffer closed only at the end of the block, not when it raises
closing_exit_on_success(out, exc) ==
    IF exc = "" THEN [out EXCEPT !.closed = TRUE, !.value = <<>>] ELSE out

\* closing(...).__exit__: output.close(), whatever exception is in flight
closing_exit(out, exc) == [out EXCEPT !.closed = TRUE, !.value = <<>>]

\* lines 110-118 / 149-157: enter the with block, create writer and formats
excel_enter(fn) ==
    /\ pc = "idle"
    /\ \E dataframe_list \in SeqsUpTo(Dataframes, MaxList),
          sheet_name_list \in SeqsUpTo(SheetNames, MaxList),
          upload \in BOOLEAN, cos_client \in CosClients :
        args' = [dataframe_list |-> dataframe_list,
                 sheet_name_list |-> sheet_name_list,
                 bucket |-> "bkt", filename |-> "report.xlsx",
                 upload |-> upload, cos_client |-> cos_client]
    /\ op' = fn
    /\ output' = [open |-> TRUE, closed |-> FALSE, value |-> <<>>]
    /\ book' = <<>>
    /\ idx' = 1
    /\ pc' = "loop"
    /\ UNCHANGED <<clock, ticks, link_vars, put_calls, result>>

generate_excel_call == excel_enter("generate_excel")

generate_excel_effectiveness_call == excel_enter("generate_excel_effectiveness")

IsExcel == op \in {"generate_excel", "generate_excel_effectiveness"}

\* lines 119-131 / 158-166: one pass of the zip loop
excel_sheet ==
    /\ IsExcel /\ pc = "loop"
    /\ idx <= zip_len(args.dataframe_list, args.sheet_name_list)
    /\ LET n    == args.dataframe_list[idx]
           name == args.sheet_name_list[idx]
       IN  IF InvalidWorksheetName(name)
           THEN /\ output' = closing_exit(output, "InvalidWorksheetName")
                /\ result' = Raised("InvalidWorksheetName")
                /\ pc' = "done"
                /\ UNCHANGED <<book, idx>>
           ELSE LET wb == to_excel(book, idx, n, name)
                    k  == CHOOSE k \in SheetIndex(wb, name) : TRUE
                IN  /\ book' = [wb EXCEPT ![k] = style_worksheet(op, wb[k], n)]
                    /\ idx' = idx + 1
                    /\ UNCHANGED <<output, result, pc>>
    /\ UNCHANGED <<clock, ticks, op, args, link_vars, put_calls>>

\* line 132 / 167: writer.save() writes the workbook into the buffer
excel_save ==
    /\ IsExcel /\ pc = "loop"
    /\ idx > zip_len(args.dataframe_list, args.sheet_name_list)
    /\ output' = [output EXCEPT !.value = book]
    /\ pc' = "upload"
    /\ UNCHANGED <<clock, ticks, op, args, link_vars, book, idx, put_calls,
                   result>>

\* an upload step that ignores the upload flag
excel_upload_unconditional ==
    /\ IsExcel /\ pc = "upload"
    /\ pc' = "done"
    /\ IF args.cos_client = "None"
       THEN /\ result' = Raised("AttributeError")
            /\ output' = closing_exit(output, "AttributeError")
            /\ UNCHANGED put_calls
       ELSE \E outcome \in PutOutcomes :
            /\ put_calls' = Append(put_calls,
                   [Bucket |-> args.bucket, Key |-> args.filename,
                    Body |-> output.value, outcome |-> outcome])
            /\ result' = IF outcome = "ok" THEN Returned(<<>>)
                         ELSE Raised(outcome)
            /\ output' = closing_exit(output,
                             IF outcome = "ok" THEN "" ELSE outcome)
    /\ UNCHANGED <<clock, ticks, op, args, link_vars, book, idx>>

\* lines 133-134 / 168-169, and the exit of the with block
excel_upload ==
    /\ IsExcel /\ pc = "upload"
    /\ pc' = "done"
    /\ IF args.upload
       THEN IF args.cos_client = "None"
            THEN /\ result' = Raised("AttributeError")
                 /\ output' = closing_exit(output, "AttributeError")
                 /\ UNCHANGED put_calls
            ELSE \E outcome \in PutOutcomes :
                 /\ put_calls' = Append(put_calls,
                        [Bucket |-> args.bucket, Key |-> args.filename,
                         Body |-> output.value, outcome |-> outcome])
                 /\ result' = IF outcome = "ok" THEN Returned(<<>>)
                              ELSE Raised(outcome)
                 /\ output' = closing_exit(output,
                                  IF outcome = "ok" THEN "" ELSE outcome)
       ELSE /\ result' = Returned(<<>>)
            /\ output' = closing_exit(output, "")
            /\ UNCHANGED put_calls
    /\ UNCHANGED <<clock, ticks, op, args, link_vars, book, idx>>

\* the clock advances on its own while generate_link, its only reader, runs
Tick ==
    /\ op = "generate_link" /\ pc # "done"
    /\ ticks < MaxTicks
    /\ clock' = clock + 1
    /\ ticks' = ticks + 1
    /\ UNCHANGED <<op, pc, args, result, link_vars, excel_vars>>

Init ==
    /\ clock \in ClockStarts
    /\ ticks = 0
    /\ clock_reads = 0
    /\ op = "none"
    /\ pc = "idle"
    /\ args = <<>>
    /\ cur_time = NoTime
    /\ timestamp = <<>>
    /\ datestamp = <<>>
    /\ link = NoLink
    /\ output = NoBuffer
    /\ book = <<>>
    /\ idx = 0
    /\ put_calls = <<>>
    /\ result = NoResult

Next ==
    \/ create_signature_key_call
    \/ generate_link_call
    \/ generate_link_utcnow
    \/ generate_link_timestamp
    \/ generate_link_datestamp
    \/ generate_link_sign
    \/ generate_excel_call
    \/ generate_excel_effectiveness_call
    \/ excel_sheet
    \/ excel_save
    \/ excel_upload
    \/ Tick

Spec == Init /\ [][Next]_vars
\* ------------------------------------------------------------ properties
LinkReturned == op = "generate_link" /\ pc = "done" /\ result.kind = "return"

\* the zip loop has run to its end and the workbook has been saved
ReportBuilt ==
    /\ IsExcel /\ pc \in {"upload", "done"}
    /\ idx > zip_len(args.dataframe_list, args.sheet_name_list)

\* the worksheet the writer holds under a name
SheetOf(name) == book[CHOOSE k \in SheetIndex(book, name) : TRUE]

\* the pairs of the zip loop processed so far
Processed == 1..(idx - 1)

\* a required credential field is missing or empty
MissingOrEmpty(c) ==
    \E k \in CredentialKeys : k \notin DOMAIN c \/ c[k] = <<>>

\* C1 (as stated): generate_link fails (InvalidCredentials) when a required
\* credential field is missing or empty, and fails (InvalidInput) when
\* expiration_seconds <= 0; in these cases no URL is returned.  Any raised
\* error is taken for the error kind the claim names.
C1_ValidationErrors ==
    (op = "generate_link" /\ pc = "done"
        /\ (MissingOrEmpty(args.credentials) \/ args.expiration <= 0)) =>
        /\ result.kind = "raise"
        /\ result.value = <<>>

\* C2 (as stated): row r in 1..len(df) of every dataset written has colour A
\* iff ((r-1) div 2) is even: rows are banded in pairs.
C2_PairBanding ==
    IsExcel =>
        \A i \in Processed : \A r \in 1..args.dataframe_list[i] :
            LET ws == SheetOf(args.sheet_name_list[i])
            IN  /\ r \in DOMAIN ws.rowinfo
                /\ ws.rowinfo[r].cell_format =
                       IF ((r - 1) \div 2) % 2 = 0
                       THEN data_format1 ELSE data_format2

\* C2 (amended): row r in 1..len(df) of every dataset written has colour A
\* iff r is odd and colour B iff r is even: single rows alternate.
C2_SingleRowBanding ==
    IsExcel =>
        \A i \in Processed : \A r \in 1..args.dataframe_list[i] :
            LET ws == SheetOf(args.sheet_name_list[i])
            IN  /\ r \in DOMAIN ws.rowinfo
                /\ ws.rowinfo[r].cell_format =
                       IF r % 2 = 1 THEN data_format1 ELSE data_format2

\* a dataset of 5 rows has been written: rows 1, 3, 5 are A, rows 2, 4 are B
C2_Witness ==
    /\ IsExcel
    /\ \E i \in Processed :
        /\ args.dataframe_list[i] = 5
        /\ LET ws == SheetOf(args.sheet_name_list[i])
           IN  /\ \A r \in {1, 3, 5} : ws.rowinfo[r].cell_format = data_format1
               /\ \A r \in {2, 4} : ws.rowinfo[r].cell_format = data_format2

StandardWidths ==
    [c \in {ColumnNames[i] : i \in 1..34} \ {"E"} |->
        CASE c = "A" -> 5
          [] c \in {"B", "C"} -> 30
          [] c = "D" -> 15
          [] c \in {"F", "G"} -> 35
          [] OTHER -> 20]

EffectivenessWidths ==
    [c \in {"A", "B", "C", "D"} |-> IF c = "A" THEN 5 ELSE 30]

SameFunction(f, g) ==
    DOMAIN f = DOMAIN g /\ \A x \in DOMAIN f : f[x] = g[x]

\* C4 (as stated): every sheet of a report has the fixed column widths of
\* its profile, whatever the number of rows of its dataset.
C4_FixedColumnWidths ==
    IsExcel =>
        \A k \in 1..Len(book) :
            SameFunction(book[k].colinfo,
                         IF op = "generate_excel" THEN StandardWidths
                         ELSE EffectivenessWidths)

\* C5: without upload, put_object is never invoked; with upload, once the
\* workbook is built and saved and a client is given, put_object is invoked
\* exactly once, with the given bucket, the filename as key and the saved
\* workbook as body; it is never invoked more than once.
C5_UploadGating ==
    IsExcel =>
        /\ Len(put_calls) <= 1
        /\ ~args.upload => put_calls = <<>>
        /\ put_calls # <<>> => ReportBuilt
        /\ (pc = "done" /\ args.upload /\ ReportBuilt
               /\ args.cos_client # "None") =>
               /\ Len(put_calls) = 1
               /\ put_calls[1].Bucket = args.bucket
               /\ put_calls[1].Key = args.filename
               /\ put_calls[1].Body = book

\* an upload of a saved workbook of at least one sheet has been made
C5_Witness ==
    /\ IsExcel /\ pc = "done" /\ args.upload
    /\ Len(put_calls) = 1 /\ Len(book) >= 1
    /\ put_calls[1].Body = book

\* C6: the buffer is closed on every exit path of generate_excel and
\* generate_excel_effectiveness, and an error raised by put_object is the
\* error the caller gets.
C6_BufferReleased ==
    (IsExcel /\ pc = "done") =>
        /\ output.closed
        /\ (put_calls # <<>> /\ put_calls[1].outcome # "ok") =>
               result = Raised(put_calls[1].outcome)

\* put_object has raised, the buffer is closed and the caller got the error
C6_Witness ==
    /\ IsExcel /\ pc = "done" /\ output.closed
    /\ put_calls # <<>> /\ put_calls[1].outcome = "StorageError"
    /\ result = Raised("StorageError")

\* C7: create_signature_key returns H(H(H(H("AWS4"+secret, datestamp),
\* region), service), "aws4_request"), and generate_link signs the
\* string-to-sign with the key derived from (secret_access_key, datestamp,
\* "", "s3").
C7_KeyChain ==
    /\ (op = "create_signature_key" /\ pc = "done") =>
           result.value =
               get_hash(get_hash(get_hash(get_hash(
                   encode(<<"AWS4">> \o args.key), args.datestamp),
                   args.region), args.service), <<"aws4_request">>)
    /\ LinkReturned =>
           /\ link.signature_key =
                  get_hash(get_hash(get_hash(get_hash(
                      encode(<<"AWS4">> \o args.credentials["secret_access_key"]),
                      datestamp), <<>>), <<"s3">>), <<"aws4_request">>)
           /\ link.signature =
                  hmac_hexdigest(link.signature_key, encode(link.sts))
           /\ result.value[Len(result.value)] = link.signature

\* a link signed on 2020-01-01 with the secret s3cr3t has been returned
C7_Witness ==
    /\ LinkReturned
    /\ link.signature_key =
           "hmac(hmac(hmac(hmac(AWS4s3cr3t,20200101),),s3),aws4_request)"

\* the text after the first "?" of a URL
RECURSIVE QueryOf(_)
QueryOf(url) ==
    IF url = <<>> THEN <<>>
    ELSE IF Head(url) = "?" THEN Tail(url) ELSE QueryOf(Tail(url))

\* the parameter names of a query string: it is split at every "&", and a
\* parameter's name ends at its first "="
RECURSIVE ParamNames(_, _, _)
ParamNames(q, name, inName) ==
    IF q = <<>> THEN <<name>>
    ELSE IF Head(q) = "&" THEN <<name>> \o ParamNames(Tail(q), "", TRUE)
    ELSE IF Head(q) = "=" THEN ParamNames(Tail(q), name, FALSE)
    ELSE ParamNames(Tail(q), IF inName THEN name \o Head(q) ELSE name, inName)

\* C8 (as stated): the query string of every returned URL consists of the
\* five X-Amz parameters in their fixed order followed by X-Amz-Signature,
\* whatever access_key_id, filename and expiration are.
C8_QueryParameters ==
    LinkReturned =>
        ParamNames(QueryOf(result.value), "", TRUE) =
            <<"X-Amz-Algorithm", "X-Amz-Credential", "X-Amz-Date",
              "X-Amz-Expires", "X-Amz-SignedHeaders", "X-Amz-Signature">>

\* C9: a call of generate_link reads the clock once, and the datestamp of
\* X-Amz-Credential, of the credential scope and of the key derivation is
\* the date part of the timestamp of X-Amz-Date and of the string-to-sign.
C9_OneClockReading ==
    /\ op = "generate_link" => clock_reads <= 1
    /\ LinkReturned =>
        LET date == SubSeq(timestamp, 1, 8)
        IN  /\ clock_reads = 1
            /\ datestamp = date
            /\ link.standardized_querystring_url_encoded =
                   quote(standardized_querystring(args.credentials, date,
                                                  timestamp, args.expiration),
                         {"&", "="})
            /\ link.credential_scope =
                   date \o <<"/", "/", "s3", "/", "aws4_request">>
            /\ SubSeq(link.sts, 3, 2 + Len(timestamp)) = timestamp
            /\ SubSeq(link.sts, 4 + Len(timestamp),
                      3 + Len(timestamp) + Len(link.credential_scope))
                   = link.credential_scope
            /\ link.signature_key =
                   create_signature_key(args.credentials["secret_access_key"],
                                        date, <<>>, <<"s3">>)

\* a link was returned by a call during which the date changed
C9_Witness ==
    /\ LinkReturned
    /\ ticks > 0
    /\ strftime_date(utcfromtimestamp(clock)) # datestamp
    /\ strftime_date(utcfromtimestamp(clock - ticks)) = datestamp

\* C10 (as stated): the rows that receive a banding format are exactly the
\* data rows 1..len(df) of the dataset (stated of every sheet written once).
C10_BandingWithinData ==
    IsExcel =>
        \A i \in Processed :
            (\A j \in Processed :
                 args.sheet_name_list[j] = args.sheet_name_list[i] => j = i)
            => LET ws == SheetOf(args.sheet_name_list[i])
               IN  {r \in DOMAIN ws.rowinfo : r >= 1}
                       = 1..args.dataframe_list[i]
====
